---- MODULE Spec2Model ----
(***************************************************************************)
(* A model of modem-stats: the bounded parallel fetcher                    *)
(* (utils.BoundedParallelGet), the Superhub 5 stats accumulator and        *)
(* normalizer (superhub5.Modem.ParseStats / ClearStats), the Loki exporter *)
(* (outputs.LokiExporter.PushLogs / StartPolling) and the Prometheus       *)
(* exporter (outputs.PrometheusExporter.Collect).                          *)
(*                                                                         *)
(* Go slices and goroutine numbers are 0-based: worker i serves urls[i+1]. *)
(***************************************************************************)
EXTENDS Integers, Sequences, FiniteSets, TLC

VARIABLES
    urls,              \* BoundedParallelGet: the addresses of the call in progress
    concurrencyLimit,  \* BoundedParallelGet: the limit K of the call in progress
    semaphoreChan,     \* number of tokens buffered in semaphoreChan
    resultsChan,       \* the buffered results channel, oldest first
    results,           \* the slice the caller's loop appends to
    closed,            \* TRUE once both channels were closed
    wpc,               \* position of each worker goroutine
    wres,              \* each worker's local result
    bpc,               \* position of the goroutine running BoundedParallelGet
    gets,              \* per request index: GETs issued by the call in progress
    Stats,             \* Modem.Stats
    FetchTime,         \* Modem.FetchTime
    mpc,               \* position of the goroutine running ParseStats
    ret,               \* what the last ParseStats call returned
    eventLog,          \* the modem: the event log it serves at /eventlog
    seenLogs,          \* LokiExporter.seenLogs: the keys mapped to true
    seenLogsMu,        \* LokiExporter.seenLogsMu: who holds it for reading, for writing
    lpc,               \* position of each goroutine running PushLogs
    fetched,           \* PushLogs: entries and err as FetchEventLog returned them
    newEntries,        \* PushLogs: newEntries, per goroutine
    cursor,            \* PushLogs: position of the range loop in progress
    request,           \* Loki: the push request of each goroutine's cycle and its answer
    lret,              \* what the last PushLogs call of each goroutine returned
    seenBefore,        \* seenLogs as it was when each goroutine's cycle began
    accepted,          \* Loki: the entries of the pushes it answered with success
    cpc,               \* position of each goroutine running PrometheusExporter.Collect
    fetchSet,          \* ParseStats: statsData, per goroutine
    queryIndex,        \* ParseStats: position of the range loop over statsData
    decoded,           \* ParseStats: the document json.Unmarshal decoded into results
    modemStats,        \* Collect: what FetchStats returned, per goroutine
    ch,                \* Collect: the metrics sent on ch, per goroutine
    ticker             \* StartPolling: the ticks buffered in ticker.C

fetchVars == <<urls, concurrencyLimit, semaphoreChan, resultsChan, results,
               closed, wpc, wres, bpc, gets>>
modemVars == <<Stats, FetchTime, mpc, ret>>
lokiVars == <<eventLog, seenLogs, seenLogsMu, lpc, fetched, newEntries, cursor,
              request, lret, seenBefore, accepted>>
scrapeVars == <<cpc, fetchSet, queryIndex, decoded, modemStats, ch>>
vars == <<urls, concurrencyLimit, semaphoreChan, resultsChan, results,
          closed, wpc, wres, bpc, gets, Stats, FetchTime, mpc, ret,
          eventLog, seenLogs, seenLogsMu, lpc, fetched, newEntries, cursor,
          request, lret, seenBefore, accepted,
          cpc, fetchSet, queryIndex, decoded, modemStats, ch, ticker>>

(***************************************************************************)
(* Bounds of the model.                                                    *)
(***************************************************************************)
MaxN == 3
MaxK == 3
MaxChannels == 2
MaxElapsed == 1
MaxPowerTenths == 600

(***************************************************************************)
(* Byte slices holding JSON. A document is a function from the leaf paths  *)
(* it sets to their values.                                                *)
(***************************************************************************)
EmptyObj == [f \in {} |-> 0]

Nil == [nil |-> TRUE, json |-> FALSE, obj |-> EmptyObj]

NotJSON == [nil |-> FALSE, json |-> FALSE, obj |-> EmptyObj]

Json(o) == [nil |-> FALSE, json |-> TRUE, obj |-> o]

(***************************************************************************)
(* HTTP. A response carries its status and its body; readErr says that     *)
(* reading the body fails. The zero http.Response stands where Get         *)
(* returned no response.                                                   *)
(***************************************************************************)
Response(status, body, readErr) ==
    [StatusCode |-> status, Body |-> body, readErr |-> readErr]

ZeroResponse == Response(0, Nil, FALSE)

Url(host, path) == [host |-> host, path |-> path]

NoErrAt == Url("", "")

MkErr(type, url) == [type |-> type, url |-> url]

(***************************************************************************)
(* The raw records of the modem's documents (dsChannel, usChannel,         *)
(* serviceFlow). Power is the JSON decimal in tenths: 21 stands for 2.1.   *)
(***************************************************************************)
DsChannel(id, type, power, snr, rxMer, pre, post, modulation) ==
    [ID |-> id, Frequency |-> 419000000, Power |-> power,
     Modulation |-> modulation, SNR |-> snr, PreRS |-> pre, PostRS |-> post,
     ChannelType |-> type, RxMer |-> rxMer, LockStatus |-> TRUE]

UsChannel(id, type, power, symbolRate, t1, t2, t3, t4) ==
    [ID |-> id, Frequency |-> 49600000, Power |-> power,
     Modulation |-> <<"q", "a", "m", "_", "6", "4">>, ChannelType |-> type,
     LockStatus |-> TRUE, SymbolRate |-> symbolRate, T1Timeout |-> t1,
     T2Timeout |-> t2, T3Timeout |-> t3, T4Timeout |-> t4]

ServiceFlow(id, direction, maxRate, maxBurst) ==
    [ID |-> id, Direction |-> direction, MaxRate |-> maxRate,
     MaxBurst |-> maxBurst]

Qam256 == <<"q", "a", "m", "_", "2", "5", "6">>

Qam4096 == <<"q", "a", "m", "_", "4", "0", "9", "6">>

DsSamples ==
    { DsChannel(37, "sc_qam", 21, 41, 7, 246832, 11087, Qam256),
      DsChannel(38, "sc_qam", -13, 39, 8, 5, 0, Qam256),
      DsChannel(33, "ofdm", 125, 3, 44, 17, 2, Qam4096),
      DsChannel(34, "ofdm", -5, 0, 0, 0, 0, Qam4096),
      DsChannel(90, "docsis4", 30, 40, 9, 1, 1, <<"o", "f", "f">>) }

UsSamples ==
    { UsChannel(1, "atdma", 448, 5120, 1, 2, 3, 4),
      UsChannel(11, "ofdma", 402, 0, 0, 0, 7, 0),
      UsChannel(12, "ofdma", -7, 10, 4, 3, 2, 1),
      UsChannel(20, "tdma", 300, 2560, 9, 9, 9, 9) }

SfSample ==
    << ServiceFlow(412832, "downstream", 287500061, 42600),
       ServiceFlow(412831, "upstream", 27500061, 0) >>

SeqsUpTo(S, n) == UNION { [1..k -> S] : k \in 0..n }

(***************************************************************************)
(* The servers. The modem answers each sub-resource with its fragment, or  *)
(* with an error status and a JSON error body, or with a body that is not  *)
(* JSON, or with a body whose read fails; or the GET fails. Any other      *)
(* host answers or fails.                                                  *)
(***************************************************************************)
ModemHost == "192.168.100.1"

OtherUrl == Url("example.org", "/")

Fragment(path) ==
    CASE path = "/downstream" ->
           [f \in {"downstream.channels", "common"} |->
              IF f = "common" THEN path
              ELSE << DsChannel(37, "sc_qam", 21, 41, 7, 246832, 11087, Qam256),
                      DsChannel(33, "ofdm", 125, 3, 44, 17, 2, Qam4096) >>]
      [] path = "/upstream" ->
           [f \in {"upstream.channels", "common"} |->
              IF f = "common" THEN path
              ELSE << UsChannel(1, "atdma", 448, 5120, 1, 2, 3, 4) >>]
      [] OTHER ->
           [f \in {"serviceFlows", "common"} |->
              IF f = "common" THEN path ELSE SfSample]

ErrorBody(path) == [f \in {"error"} |-> path]

Serve(url) ==
    IF url.host = ModemHost
    THEN { [hasRes |-> TRUE, Err |-> MkErr("nil", NoErrAt),
            Res |-> Response(200, Json(Fragment(url.path)), FALSE)],
           [hasRes |-> TRUE, Err |-> MkErr("nil", NoErrAt),
            Res |-> Response(500, Json(ErrorBody(url.path)), FALSE)],
           [hasRes |-> TRUE, Err |-> MkErr("nil", NoErrAt),
            Res |-> Response(200, NotJSON, FALSE)],
           [hasRes |-> TRUE, Err |-> MkErr("nil", NoErrAt),
            Res |-> Response(200, Json(Fragment(url.path)), TRUE)],
           [hasRes |-> FALSE, Err |-> MkErr("Get", url), Res |-> ZeroResponse] }
    ELSE { [hasRes |-> TRUE, Err |-> MkErr("nil", NoErrAt),
            Res |-> Response(200, Json(EmptyObj), FALSE)],
           [hasRes |-> FALSE, Err |-> MkErr("Get", url), Res |-> ZeroResponse] }

(***************************************************************************)
(* utils.BoundedParallelGet                                                *)
(***************************************************************************)
Workers == 0 .. (Len(urls) - 1)

NoResult == [Index |-> -1, Res |-> ZeroResponse, Err |-> MkErr("nil", NoErrAt)]

HttpResultIndex0(i, got) ==
    IF got.hasRes
    THEN [Index |-> 0, Res |-> got.Res, Err |-> got.Err]
    ELSE [Index |-> 0, Res |-> ZeroResponse, Err |-> got.Err]

HttpResult(i, got) ==
    IF got.hasRes
    THEN [Index |-> i, Res |-> got.Res, Err |-> got.Err]
    ELSE [Index |-> i, Res |-> ZeroResponse, Err |-> got.Err]

SemaphoreAlwaysFree == TRUE

\* make(chan struct{}, 0): a send that no receiver ever meets
SemaphoreUnbuffered == FALSE

SemaphoreHasRoom == semaphoreChan < concurrencyLimit

\* go func: semaphoreChan <- struct{}{}, then the GET is issued
Acquire(i) ==
    /\ wpc[i] = "acquire"
    /\ ~closed
    /\ SemaphoreHasRoom
    /\ semaphoreChan' = semaphoreChan + 1
    /\ gets' = [gets EXCEPT ![i] = @ + 1]
    /\ wpc' = [wpc EXCEPT ![i] = "get"]
    /\ UNCHANGED <<urls, concurrencyLimit, resultsChan, results, closed, wres,
                   bpc, modemVars, lokiVars, scrapeVars,
                   ticker>>

\* insecureHTTPClient.Get returns; the worker builds its HttpResult
GetReturn(i) ==
    /\ wpc[i] = "get"
    /\ \E got \in Serve(urls[i + 1]) :
          wres' = [wres EXCEPT ![i] = HttpResult(i, got)]
    /\ wpc' = [wpc EXCEPT ![i] = "send"]
    /\ UNCHANGED <<urls, concurrencyLimit, semaphoreChan, resultsChan, results,
                   closed, gets, bpc, modemVars, lokiVars, scrapeVars,
                   ticker>>

\* resultsChan <- result
Send(i) ==
    /\ wpc[i] = "send"
    /\ ~closed
    /\ Len(resultsChan) < Len(urls)
    /\ resultsChan' = Append(resultsChan, wres[i])
    /\ wpc' = [wpc EXCEPT ![i] = "release"]
    /\ UNCHANGED <<urls, concurrencyLimit, semaphoreChan, results, closed, wres,
                   gets, bpc, modemVars, lokiVars, scrapeVars,
                   ticker>>

\* <-semaphoreChan: a token, or the zero value of the closed channel
Release(i) ==
    /\ wpc[i] = "release"
    /\ semaphoreChan > 0 \/ closed
    /\ semaphoreChan' = IF semaphoreChan > 0 THEN semaphoreChan - 1 ELSE 0
    /\ wpc' = [wpc EXCEPT ![i] = "done"]
    /\ UNCHANGED <<urls, concurrencyLimit, resultsChan, results, closed, wres,
                   gets, bpc, modemVars, lokiVars, scrapeVars,
                   ticker>>

\* for range urls { result := <-resultsChan; results = append(results, *result) }
Collect ==
    /\ bpc = "collect"
    /\ Len(results) < Len(urls)
    /\ resultsChan # << >>
    /\ results' = Append(results, Head(resultsChan))
    /\ resultsChan' = Tail(resultsChan)
    /\ UNCHANGED <<urls, concurrencyLimit, semaphoreChan, closed, wpc, wres,
                   gets, bpc, modemVars, lokiVars, scrapeVars,
                   ticker>>

\* close(semaphoreChan); close(resultsChan); return results
Return ==
    /\ bpc = "collect"
    /\ Len(results) = Len(urls)
    /\ closed' = TRUE
    /\ bpc' = "returned"
    /\ UNCHANGED <<urls, concurrencyLimit, semaphoreChan, resultsChan, results,
                   wpc, wres, gets, modemVars, lokiVars, scrapeVars,
                   ticker>>

\* the state BoundedParallelGet(us, k) is in once its goroutines are started
Started(us, k) ==
    /\ urls' = us
    /\ concurrencyLimit' = k
    /\ semaphoreChan' = 0
    /\ resultsChan' = << >>
    /\ results' = << >>
    /\ closed' = FALSE
    /\ wpc' = [i \in 0 .. (Len(us) - 1) |-> "acquire"]
    /\ wres' = [i \in 0 .. (Len(us) - 1) |-> NoResult]
    /\ gets' = [i \in 0 .. (Len(us) - 1) |-> 0]
    /\ bpc' = "collect"

(***************************************************************************)
(* float32. The JSON decimal d/10 is decoded to the nearest float32        *)
(* (round to nearest, ties to even on the 24-bit significand); a float32   *)
(* product is rounded the same way; int(x) truncates toward zero.          *)
(* A positive float32 is the pair <<n, q>> standing for n / q, q a power   *)
(* of two.                                                                 *)
(***************************************************************************)
RECURSIVE Pow2(_)
Pow2(n) == IF n = 0 THEN 1 ELSE 2 * Pow2(n - 1)

\* the least 24-bit significand and the first value beyond the greatest
MinSignificand == Pow2(23)

SignificandLimit == Pow2(24)

Abs(x) == IF x < 0 THEN -x ELSE x

Sign(x) == IF x < 0 THEN -1 ELSE 1

RoundHalfEven(n, q) ==
    LET f == n \div q
        r == n % q
    IN  IF 2 * r < q THEN f
        ELSE IF 2 * r > q THEN f + 1
        ELSE IF f % 2 = 0 THEN f ELSE f + 1

\* d/10 as x / (10 * q) with x / 10 of at least 24 bits: <<x, q>>
RECURSIVE Scale(_, _)
Scale(x, q) ==
    IF x >= 10 * MinSignificand THEN <<x, q>> ELSE Scale(2 * x, 2 * q)

\* float32 of the decimal d/10, d >= 1
Float32OfTenths(d) ==
    LET scaled == Scale(d, 1)
    IN  <<RoundHalfEven(scaled[1], 10), scaled[2]>>

\* the least power of two u with p / u < 2^24
RECURSIVE Drop(_, _)
Drop(p, u) == IF p < SignificandLimit * u THEN u ELSE Drop(p, 2 * u)

\* x * 10 in float32
Float32Times10(x) ==
    LET p == x[1] * 10
        u == Drop(p, 1)
    IN  <<RoundHalfEven(p, u) * u, x[2]>>

IntOfFloat32(x) == x[1] \div x[2]

\* int(Power * 10) for the decoded decimal d/10
PowerTimes10(d) ==
    IF d = 0 THEN 0
    ELSE Sign(d) * IntOfFloat32(Float32Times10(Float32OfTenths(Abs(d))))

\* int(Power) for the decoded decimal d/10
PowerTruncated(d) ==
    IF d = 0 THEN 0
    ELSE Sign(d) * IntOfFloat32(Float32OfTenths(Abs(d)))

(***************************************************************************)
(* The normalizer: the second half of Modem.ParseStats.                    *)
(***************************************************************************)
Digits == {"0", "1", "2", "3", "4", "5", "6", "7", "8", "9"}

\* modulationRegex.FindString: the leftmost longest run of digits, or ""
RECURSIVE DigitRun(_, _)
DigitRun(str, k) ==
    IF k > Len(str) \/ str[k] \notin Digits THEN << >>
    ELSE <<str[k]>> \o DigitRun(str, k + 1)

RECURSIVE FindFrom(_, _)
FindFrom(str, k) ==
    IF k > Len(str) THEN << >>
    ELSE IF str[k] \in Digits THEN DigitRun(str, k)
    ELSE FindFrom(str, k + 1)

FindString(str) == FindFrom(str, 1)

ModemChannel(id, channel, frequency, snr, power, pre, post, modulation, scheme, t, locked, symbolRate) ==
    [ChannelID |-> id, Channel |-> channel, Frequency |-> frequency,
     Snr |-> snr, Power |-> power, Prerserr |-> pre, Postrserr |-> post,
     Modulation |-> modulation, Scheme |-> scheme, Noise |-> 0,
     Attenuation |-> 0, T1Timeout |-> t[1], T2Timeout |-> t[2],
     T3Timeout |-> t[3], T4Timeout |-> t[4], Locked |-> locked,
     SymbolRate |-> symbolRate]

DownSchemeLenient(channelType) ==
    IF channelType = "sc_qam" THEN "SC-QAM" ELSE "OFDM"

\* the scheme of a downstream tag; "" makes the loop continue
DownScheme(channelType) ==
    IF channelType = "sc_qam" THEN "SC-QAM"
    ELSE IF channelType = "ofdm" THEN "OFDM"
    ELSE ""

UpScheme(channelType) ==
    IF channelType = "atdma" THEN "ATDMA"
    ELSE IF channelType = "ofdma" THEN "OFDMA"
    ELSE ""

DownSnrScaled(downstream) == downstream.SNR * 10

DownSnr(downstream) ==
    IF downstream.ChannelType = "ofdm" THEN downstream.RxMer
    ELSE downstream.SNR * 10

DownPower(downstream) ==
    IF downstream.ChannelType = "ofdm" THEN PowerTruncated(downstream.Power)
    ELSE PowerTimes10(downstream.Power)

UpPower(upstream) ==
    IF upstream.ChannelType = "ofdma" THEN PowerTruncated(upstream.Power)
    ELSE PowerTimes10(upstream.Power)

DownChannel(downstream, index) ==
    ModemChannel(downstream.ID, index + 1, downstream.Frequency,
                 DownSnr(downstream), DownPower(downstream),
                 downstream.PreRS + downstream.PostRS, downstream.PostRS,
                 <<"Q", "A", "M">> \o FindString(downstream.Modulation),
                 DownScheme(downstream.ChannelType), <<0, 0, 0, 0>>,
                 downstream.LockStatus, 0)

UpChannel(upstream, index) ==
    ModemChannel(upstream.ID, index + 1, upstream.Frequency, 0,
                 UpPower(upstream), 0, 0, << >>,
                 UpScheme(upstream.ChannelType),
                 <<upstream.T1Timeout, upstream.T2Timeout,
                   upstream.T3Timeout, upstream.T4Timeout>>,
                 upstream.LockStatus, upstream.SymbolRate)

\* the downChannels appended by the first k rounds of the loop
RECURSIVE DownChannels(_, _)
DownChannels(channels, k) ==
    IF k = 0 THEN << >>
    ELSE IF DownScheme(channels[k].ChannelType) = ""
         THEN DownChannels(channels, k - 1)
         ELSE Append(DownChannels(channels, k - 1),
                     DownChannel(channels[k], k - 1))

RECURSIVE UpChannels(_, _)
UpChannels(channels, k) ==
    IF k = 0 THEN << >>
    ELSE IF UpScheme(channels[k].ChannelType) = ""
         THEN UpChannels(channels, k - 1)
         ELSE Append(UpChannels(channels, k - 1),
                     UpChannel(channels[k], k - 1))

ModemConfig(modemConfig) ==
    [Config |-> modemConfig.Direction, Maxrate |-> modemConfig.MaxRate,
     Maxburst |-> modemConfig.MaxBurst, ServiceFlowId |-> modemConfig.ID]

Configs(serviceFlows) ==
    [k \in 1 .. Len(serviceFlows) |-> ModemConfig(serviceFlows[k])]

\* a list of resultsStruct: absent from the document, it decodes to empty
Field(doc, f) == IF f \in DOMAIN doc THEN doc[f] ELSE << >>

\* a snapshot whose duration is not the one handed in
ModemStatsNoDuration(configs, up, down, fetchTime) ==
    [Configs |-> configs, UpChannels |-> up, DownChannels |-> down,
     FetchTime |-> 0, ModemType |-> ""]

ModemStats(configs, up, down, fetchTime) ==
    [Configs |-> configs, UpChannels |-> up, DownChannels |-> down,
     FetchTime |-> fetchTime, ModemType |-> ""]

ZeroStats == ModemStats(<< >>, << >>, << >>, 0)

Returns(stats, err, cached) ==
    [called |-> TRUE, cached |-> cached, stats |-> stats, err |-> err]

NoRet ==
    [called |-> FALSE, cached |-> FALSE, stats |-> ZeroStats,
     err |-> MkErr("nil", NoErrAt)]

\* json.Unmarshal of the cached bytes and the three loops
Normalize(bytes, fetchTime, cached) ==
    IF ~bytes.json
    THEN Returns(ZeroStats, MkErr("failed to parse stats JSON", NoErrAt), cached)
    ELSE LET down == Field(bytes.obj, "downstream.channels")
             up == Field(bytes.obj, "upstream.channels")
             flows == Field(bytes.obj, "serviceFlows")
         IN  Returns(ModemStats(Configs(flows), UpChannels(up, Len(up)),
                                DownChannels(down, Len(down)), fetchTime),
                     MkErr("nil", NoErrAt), cached)

(***************************************************************************)
(* The accumulator: the first half of Modem.ParseStats, and ClearStats.    *)
(***************************************************************************)
Queries ==
    << Url(ModemHost, "/downstream"), Url(ModemHost, "/upstream"),
       Url(ModemHost, "/serviceflows") >>

ParseStatsLimit == 3

\* jsonpatch.MergeMergePatches: the fields of the patch over those of the
\* document; a syntax error on either side gives (nil, error)
MergeMergePatches(doc, patch) ==
    IF ~doc.json \/ ~patch.json
    THEN [out |-> Nil, err |-> MkErr("MergePatch", NoErrAt)]
    ELSE [out |-> Json([f \in DOMAIN doc.obj \cup DOMAIN patch.obj |->
                          IF f \in DOMAIN patch.obj THEN patch.obj[f]
                          ELSE doc.obj[f]]),
          err |-> MkErr("nil", NoErrAt)]

\* for _, query := range statsData, from the k-th result on
RECURSIVE MergeLoop(_, _, _)
MergeLoop(stats, statsData, k) ==
    IF k > Len(statsData) THEN [Stats |-> stats, err |-> MkErr("nil", NoErrAt)]
    ELSE LET query == statsData[k]
             merged == MergeMergePatches(stats, query.Res.Body)
         IN  IF query.Err.type # "nil"
             THEN [Stats |-> stats, err |-> query.Err]
             ELSE IF query.Res.readErr
             THEN [Stats |-> stats, err |-> MkErr("ReadAll", NoErrAt)]
             ELSE IF merged.err.type # "nil"
             THEN [Stats |-> merged.out, err |-> merged.err]
             ELSE MergeLoop(merged.out, statsData, k + 1)

AlwaysFetch == TRUE

\* if sh5.Stats == nil
NeedsFetch == Stats.nil

\* a ParseStats that uses up the cached document
ParseStatsCachedConsuming ==
    /\ mpc = "idle"
    /\ ~NeedsFetch
    /\ ret' = Normalize(Stats, FetchTime, TRUE)
    /\ Stats' = Json(EmptyObj)
    /\ UNCHANGED <<FetchTime, mpc, fetchVars, lokiVars, scrapeVars,
                   ticker>>

\* ParseStats on a cached document: no fetch, the document is normalized
ParseStatsCached ==
    /\ mpc = "idle"
    /\ ~NeedsFetch
    /\ ret' = Normalize(Stats, FetchTime, TRUE)
    /\ UNCHANGED <<Stats, FetchTime, mpc, fetchVars, lokiVars, scrapeVars,
                   ticker>>

\* ParseStats without a document: the placeholder is stored and the three
\* queries are handed to BoundedParallelGet
ParseStatsBegin ==
    /\ mpc = "idle"
    /\ NeedsFetch
    /\ Stats' = Json(EmptyObj)
    /\ Started(Queries, ParseStatsLimit)
    /\ mpc' = "fetching"
    /\ ret' = NoRet
    /\ UNCHANGED <<FetchTime, lokiVars, scrapeVars,
                   ticker>>

\* BoundedParallelGet has returned: FetchTime is set, the results are merged
\* in the order they were returned, the document is normalized
ParseStatsFinish ==
    /\ mpc = "fetching"
    /\ bpc = "returned"
    /\ \E elapsed \in 0 .. MaxElapsed :
          LET acc == MergeLoop(Stats, results, 1)
          IN  /\ FetchTime' = elapsed
              /\ Stats' = acc.Stats
              /\ ret' = IF acc.err.type # "nil"
                        THEN Returns(ZeroStats, acc.err, FALSE)
                        ELSE Normalize(acc.Stats, elapsed, FALSE)
    /\ mpc' = "idle"
    /\ bpc' = "idle"
    /\ UNCHANGED <<urls, concurrencyLimit, semaphoreChan, resultsChan, results,
                   closed, wpc, wres, gets, lokiVars, scrapeVars,
                   ticker>>

\* sh5.Stats = nil; the caller forgets what ParseStats returned
ClearStats ==
    /\ mpc = "idle"
    /\ Stats' = Nil
    /\ ret' = NoRet
    /\ UNCHANGED <<FetchTime, mpc, fetchVars, lokiVars, scrapeVars,
                   ticker>>

(***************************************************************************)
(* The modem as its users construct it: without a document, or with        *)
(* Stats and FetchTime preloaded (Modem{Stats: ..., FetchTime: ...}).      *)
(***************************************************************************)
Document(down, up, flows) ==
    [f \in {"downstream.channels", "upstream.channels", "serviceFlows"} |->
       IF f = "downstream.channels" THEN down
       ELSE IF f = "upstream.channels" THEN up ELSE flows]

PowerRange == (0 - MaxPowerTenths) .. MaxPowerTenths

RawDocuments ==
    { Document(down, up, SfSample) :
        down \in SeqsUpTo(DsSamples, MaxChannels),
        up \in SeqsUpTo(UsSamples, MaxChannels) }
    \cup
    { Document(<<DsChannel(37, type, power, 41, 7, 5, 2, Qam256)>>, << >>, << >>) :
        type \in {"sc_qam", "ofdm"}, power \in PowerRange }
    \cup
    { Document(<< >>, <<UsChannel(1, type, power, 5120, 1, 2, 3, 4)>>, << >>) :
        type \in {"atdma", "ofdma"}, power \in PowerRange }
    \cup
    { EmptyObj }

\* no PrometheusExporter is registered and no goroutine runs Collect
InitScrapeIdle ==
    /\ cpc = << >>
    /\ fetchSet = << >>
    /\ queryIndex = << >>
    /\ decoded = << >>
    /\ modemStats = << >>
    /\ ch = << >>

\* no LokiExporter is constructed and no goroutine runs PushLogs
InitLokiIdle ==
    /\ eventLog = << >>
    /\ seenLogs = {}
    /\ seenLogsMu = [readers |-> {}, writer |-> {}]
    /\ lpc = << >>
    /\ fetched = << >>
    /\ newEntries = << >>
    /\ cursor = << >>
    /\ request = << >>
    /\ lret = << >>
    /\ seenBefore = << >>
    /\ accepted = {}

Init ==
    /\ Stats \in {Nil, NotJSON} \cup { Json(doc) : doc \in RawDocuments }
    /\ FetchTime \in 0 .. MaxElapsed
    /\ mpc = "idle"
    /\ ret = NoRet
    /\ urls = << >>
    /\ concurrencyLimit = ParseStatsLimit
    /\ semaphoreChan = 0
    /\ resultsChan = << >>
    /\ results = << >>
    /\ closed = FALSE
    /\ wpc = << >>
    /\ wres = << >>
    /\ gets = << >>
    /\ bpc = "idle"
    /\ InitLokiIdle
    /\ InitScrapeIdle
    /\ ticker = 0

Next ==
    \/ ParseStatsCached
    \/ ParseStatsBegin
    \/ \E i \in Workers : Acquire(i)
    \/ \E i \in Workers : GetReturn(i)
    \/ \E i \in Workers : Send(i)
    \/ \E i \in Workers : Release(i)
    \/ Collect
    \/ Return
    \/ ParseStatsFinish
    \/ ClearStats

Spec == Init /\ [][Next]_vars

InitModemIdle ==
    /\ Stats = Nil
    /\ FetchTime = 0
    /\ mpc = "idle"
    /\ ret = NoRet

\* a call BoundedParallelGet(urls, K) of N addresses, its goroutines started
InitFetch ==
    /\ \E n \in 0 .. MaxN : urls = [j \in 1 .. n |-> OtherUrl]
    /\ concurrencyLimit \in 1 .. MaxK
    /\ semaphoreChan = 0
    /\ resultsChan = << >>
    /\ results = << >>
    /\ closed = FALSE
    /\ wpc = [i \in Workers |-> "acquire"]
    /\ wres = [i \in Workers |-> NoResult]
    /\ gets = [i \in Workers |-> 0]
    /\ bpc = "collect"
    /\ InitModemIdle
    /\ InitLokiIdle
    /\ InitScrapeIdle
    /\ ticker = 0

NextFetch ==
    \/ \E i \in Workers : Acquire(i)
    \/ \E i \in Workers : GetReturn(i)
    \/ \E i \in Workers : Send(i)
    \/ \E i \in Workers : Release(i)
    \/ Collect
    \/ Return

SpecFetch == InitFetch /\ [][NextFetch]_vars

(***************************************************************************)
(* Properties of BoundedParallelGet.                                       *)
(***************************************************************************)
Returned == bpc = "returned"

InFlight == { i \in Workers : wpc[i] = "get" }

HoldingSlot == { i \in Workers : wpc[i] \in {"get", "send", "release"} }

HandedOver(i) ==
    \/ \E j \in 1 .. Len(resultsChan) : resultsChan[j].Index = i
    \/ \E j \in 1 .. Len(results) : results[j].Index = i

Failed(r) == r.Err.type # "nil"

\* C1: for every limit K >= 1 and every N >= 0 addresses, the sequence
\* BoundedParallelGet returns holds exactly N results and every index
\* 0..N-1 exactly once, whatever the completion order and whichever
\* requests failed.
C1_AllIndexesOnce ==
    Returned =>
        /\ Len(results) = Len(urls)
        /\ \A i \in Workers :
              Cardinality({ j \in 1 .. Len(results) : results[j].Index = i }) = 1

\* a call of MaxN addresses returned, one request failed, and the results
\* are not in request order
C1_Witness ==
    /\ Returned
    /\ Len(urls) = MaxN
    /\ \E j \in 1 .. Len(results) : Failed(results[j])
    /\ \E j \in 1 .. Len(results) : ~Failed(results[j])
    /\ \E j \in 1 .. Len(results) : results[j].Index # j - 1

\* C2: in every reachable state at most K GET requests are started and not
\* finished; a request is started only while it holds a semaphore slot, the
\* slots held are exactly the tokens in the semaphore, and a worker that gave
\* its slot back has handed its result over.
C2_AtMostKInFlight ==
    /\ Cardinality(InFlight) <= concurrencyLimit
    /\ semaphoreChan = Cardinality(HoldingSlot)
    /\ semaphoreChan <= concurrencyLimit
    /\ \A i \in Workers : wpc[i] = "done" => HandedOver(i)
    /\ \A i \in Workers : wpc[i] = "release" => HandedOver(i)

\* more requests than slots: K are in flight and another worker waits
C2_Witness ==
    /\ Len(urls) > concurrencyLimit
    /\ Cardinality(InFlight) = concurrencyLimit
    /\ \E i \in Workers : wpc[i] = "acquire"
    /\ \E i \in Workers : wpc[i] = "done"

(***************************************************************************)
(* Properties of ParseStats and ClearStats.                                *)
(***************************************************************************)
IsNil(err) == err.type = "nil"

\* ParseStats has returned to its caller, who still holds what it returned
Answered == mpc = "idle" /\ ret.called

\* the call that answered went through the fetch
Fetched == Answered /\ ~ret.cached

ResultOf(i) == CHOOSE r \in { results[j] : j \in 1 .. Len(results) } : r.Index = i

FailedRequests == { i \in Workers : Failed(ResultOf(i)) }

Min(S) == CHOOSE x \in S : \A y \in S : x <= y

Max(S) == CHOOSE x \in S : \A y \in S : x >= y

\* the requests whose body is a document that sets field f
Setting(f) ==
    { i \in Workers :
        /\ ~Failed(ResultOf(i))
        /\ ResultOf(i).Res.Body.json
        /\ f \in DOMAIN ResultOf(i).Res.Body.obj }

\* C3: when ParseStats fills an empty cache and two fragments set the same
\* field, the cached document holds the value of the fragment with the
\* higher request index, for every completion order.
C3_RequestOrderWins ==
    (Fetched /\ IsNil(ret.err) /\ Cardinality(Setting("common")) >= 2) =>
        /\ "common" \in DOMAIN Stats.obj
        /\ Stats.obj["common"] =
              ResultOf(Max(Setting("common"))).Res.Body.obj["common"]

\* every response of the call is a failed GET or a readable JSON document
OnlyGetFailures ==
    \A i \in Workers :
        \/ Failed(ResultOf(i))
        \/ ResultOf(i).Res.Body.json /\ ~ResultOf(i).Res.readErr

\* C4: when requests of the fetch set fail, the error ParseStats returns is
\* the error of the failing request with the lowest request index.
C4_FirstErrorByIndex ==
    (Fetched /\ OnlyGetFailures /\ FailedRequests # {}) =>
        ret.err = ResultOf(Min(FailedRequests)).Err

\* C5: if ParseStats started without a cached document and the accumulation
\* failed, the cached document is absent (nil) when ParseStats returns.
C5_FailureLeavesNoCache ==
    (Fetched /\ ~IsNil(ret.err)) => Stats.nil

SuccessStatus(code) == code >= 200 /\ code <= 299

NonSuccess ==
    { i \in Workers :
        ~Failed(ResultOf(i)) /\ ~SuccessStatus(ResultOf(i).Res.StatusCode) }

\* C6: if a stats sub-resource request receives a non-success status (here:
\* while no GET fails and every body is readable JSON), ParseStats returns
\* an error and the body is not used as data.
C6_StatusIsAnError ==
    (Fetched /\ NonSuccess # {} /\ OnlyGetFailures /\ FailedRequests = {}) =>
        /\ ~IsNil(ret.err)
        /\ Stats.json => "error" \notin DOMAIN Stats.obj

\* C7: while a document is cached, a ParseStats call issues no GET and
\* leaves the document as it is, and only ClearStats removes it; ClearStats
\* leaves the cache absent (nil); a fetch is begun only from an absent cache,
\* with the three queries and no GET issued yet, and when the fetch has
\* returned each query was issued exactly once.
C7_CachedUntilCleared ==
    /\ [][(mpc = "idle" /\ ~Stats.nil /\ ~Stats'.nil) =>
             (Stats' = Stats /\ gets' = gets /\ mpc' = "idle")]_vars
    /\ [][ClearStats => Stats'.nil]_vars
    /\ [][(mpc = "idle" /\ mpc' = "fetching") =>
             /\ Stats.nil
             /\ urls' = Queries
             /\ \A i \in 0 .. (Len(Queries) - 1) : gets'[i] = 0]_vars
    /\ [][(mpc = "idle" /\ mpc' = "idle") => gets' = gets]_vars
    /\ [](mpc = "fetching" /\ bpc = "returned" =>
             \A i \in 0 .. (Len(Queries) - 1) : gets[i] = 1)

\* a call was answered from the document an earlier call fetched and merged
C7_Witness ==
    /\ Answered
    /\ ret.cached
    /\ IsNil(ret.err)
    /\ urls = Queries
    /\ \A i \in Workers : gets[i] = 1
    /\ Stats.json
    /\ DOMAIN Stats.obj =
          {"downstream.channels", "upstream.channels", "serviceFlows", "common"}

\* the call that answered normalized the cached document
Normalized == Answered /\ Stats.json /\ ret.err.type \notin {"Get", "ReadAll", "MergePatch"}

RawDown == Field(Stats.obj, "downstream.channels")

RawUp == Field(Stats.obj, "upstream.channels")

Ordinals(channels) == [j \in 1 .. Len(channels) |-> channels[j].Channel]

\* C8: in the downstream and in the upstream list the emitted channels carry
\* the ordinals 1, 2, ..., m in document order, m being the number of
\* entries with a recognized tag.
C8_OrdinalsSkipUnrecognized ==
    (Normalized /\ IsNil(ret.err)) =>
        /\ Ordinals(ret.stats.DownChannels) =
              [j \in 1 .. Len(ret.stats.DownChannels) |-> j]
        /\ Ordinals(ret.stats.UpChannels) =
              [j \in 1 .. Len(ret.stats.UpChannels) |-> j]

DownRecognized(e) == e.ChannelType \in {"sc_qam", "ofdm"}

UpRecognized(e) == e.ChannelType \in {"atdma", "ofdma"}

Ids(channels) == [j \in 1 .. Len(channels) |-> channels[j].ID]

ChannelIds(channels) == [j \in 1 .. Len(channels) |-> channels[j].ChannelID]

\* C9: an entry with an unrecognized tag is no error: ParseStats returns no
\* error, emits no channel for it, and emits one channel for every
\* recognized entry of the same list, in order, each with one scheme label
\* of {SC-QAM, OFDM} (downstream) or {ATDMA, OFDMA} (upstream).
C9_UnrecognizedSkipped ==
    Normalized =>
        /\ IsNil(ret.err)
        /\ ChannelIds(ret.stats.DownChannels) =
              Ids(SelectSeq(RawDown, DownRecognized))
        /\ ChannelIds(ret.stats.UpChannels) =
              Ids(SelectSeq(RawUp, UpRecognized))
        /\ \A j \in 1 .. Len(ret.stats.DownChannels) :
              ret.stats.DownChannels[j].Scheme \in {"SC-QAM", "OFDM"}
        /\ \A j \in 1 .. Len(ret.stats.UpChannels) :
              ret.stats.UpChannels[j].Scheme \in {"ATDMA", "OFDMA"}

\* both lists hold an unrecognized entry and a recognized one, and the
\* downstream list one that follows the unrecognized entry
C9_Witness ==
    /\ Normalized
    /\ Len(RawDown) >= 2
    /\ ~DownRecognized(RawDown[1])
    /\ DownRecognized(RawDown[2])
    /\ \E k \in 1 .. Len(RawUp) : ~UpRecognized(RawUp[k])
    /\ \E k \in 1 .. Len(RawUp) : UpRecognized(RawUp[k])
    /\ Len(ret.stats.DownChannels) = 1

\* the decimal d/10 cut to an integer, toward zero
Unscaled(d) == IF d < 0 THEN 0 - ((0 - d) \div 10) ELSE d \div 10

DownReference(e, c) ==
    /\ c.Prerserr = e.PreRS + e.PostRS
    /\ c.Postrserr = e.PostRS
    /\ e.ChannelType = "sc_qam" =>
          c.Power = e.Power /\ c.Snr = 10 * e.SNR /\ c.Scheme = "SC-QAM"
    /\ e.ChannelType = "ofdm" =>
          c.Power = Unscaled(e.Power) /\ c.Snr = e.RxMer /\ c.Scheme = "OFDM"

UpReference(e, c) ==
    /\ c.SymbolRate = e.SymbolRate
    /\ c.T1Timeout = e.T1Timeout
    /\ c.T2Timeout = e.T2Timeout
    /\ c.T3Timeout = e.T3Timeout
    /\ c.T4Timeout = e.T4Timeout
    /\ e.ChannelType = "atdma" => c.Power = e.Power /\ c.Scheme = "ATDMA"
    /\ e.ChannelType = "ofdma" =>
          c.Power = Unscaled(e.Power) /\ c.Scheme = "OFDMA"

\* C10: each emitted channel is the reference normalization of its raw
\* entry: sc_qam gives ten times the power and the SNR, ofdm the unscaled
\* power and rxMer as SNR, both pre-error = corrected + uncorrected and
\* post-error = uncorrected; atdma gives ten times the power, ofdma the
\* unscaled power, with the symbol rate and T1-T4 copied.
C10_ReferenceNormalization ==
    (Normalized /\ IsNil(ret.err)) =>
        /\ Len(ret.stats.DownChannels) = Len(SelectSeq(RawDown, DownRecognized))
        /\ Len(ret.stats.UpChannels) = Len(SelectSeq(RawUp, UpRecognized))
        /\ \A j \in 1 .. Len(ret.stats.DownChannels) :
              DownReference(SelectSeq(RawDown, DownRecognized)[j],
                            ret.stats.DownChannels[j])
        /\ \A j \in 1 .. Len(ret.stats.UpChannels) :
              UpReference(SelectSeq(RawUp, UpRecognized)[j],
                          ret.stats.UpChannels[j])

\* a document with an sc_qam and an ofdm entry of fractional power, an atdma
\* and an ofdma entry, was normalized
C10_Witness ==
    /\ Normalized
    /\ IsNil(ret.err)
    /\ \E j \in 1 .. Len(RawDown) :
          RawDown[j].ChannelType = "sc_qam" /\ RawDown[j].Power < 0
    /\ \E j \in 1 .. Len(RawDown) :
          RawDown[j].ChannelType = "ofdm" /\ RawDown[j].Power % 10 # 0
    /\ \E j \in 1 .. Len(RawUp) : RawUp[j].ChannelType = "atdma"
    /\ \E j \in 1 .. Len(RawUp) : RawUp[j].ChannelType = "ofdma"
    /\ Len(ret.stats.DownChannels) = 2
    /\ Len(ret.stats.UpChannels) = 2

(***************************************************************************)
(* Properties of ParseStats on a document that does not decode.            *)
(***************************************************************************)
DecodeFailed == Answered /\ ret.err.type = "failed to parse stats JSON"

\* C11: once ParseStats has failed with a decode error, the failure is not
\* permanent: the ParseStats call that follows either fetches anew from the
\* modem or normalizes a document that decodes.
C11_DecodeFailureNotPermanent ==
    DecodeFailed =>
        \/ NeedsFetch
        \/ IsNil(Normalize(Stats, FetchTime, TRUE).err)

(***************************************************************************)
(* The event log. A string is the sequence of its pieces; the separator    *)
(* "|" is always a piece of its own. The modem serves eventLogEntry        *)
(* records (priority, time, message).                                      *)
(***************************************************************************)
MaxLog == 2

eventLogEntry(priority, time, message) ==
    [Priority |-> priority, Time |-> time, Message |-> message]

EventLogEntry(priority, timestamp, message) ==
    [Priority |-> priority, Timestamp |-> timestamp, Message |-> message]

EventSamples ==
    { eventLogEntry(<<"error">>, <<"1970-01-01T00:00:09Z">>, <<"T3 time-out">>),
      eventLogEntry(<<"error">>, <<"1970-01-01T00:00:10Z">>, <<"T4 time-out">>),
      eventLogEntry(<<"notice">>, <<"yesterday">>, <<"rebooted">>) }

EventLogs == SeqsUpTo(EventSamples, MaxLog)

EventLogBody(log) == [f \in {"eventlog"} |-> log]

\* what the GET of /eventlog can give
ServeEventLog ==
    { [hasRes |-> TRUE, Err |-> MkErr("nil", NoErrAt),
       Res |-> Response(200, Json(EventLogBody(eventLog)), FALSE)],
      [hasRes |-> TRUE, Err |-> MkErr("nil", NoErrAt),
       Res |-> Response(500, Json(ErrorBody("/eventlog")), FALSE)],
      [hasRes |-> TRUE, Err |-> MkErr("nil", NoErrAt),
       Res |-> Response(200, NotJSON, FALSE)],
      [hasRes |-> TRUE, Err |-> MkErr("nil", NoErrAt),
       Res |-> Response(200, Json(EventLogBody(eventLog)), TRUE)],
      [hasRes |-> FALSE, Err |-> MkErr("Get", Url(ModemHost, "/eventlog")),
       Res |-> ZeroResponse] }

\* Modem.FetchEventLog, given what the GET gave
FetchEventLog(got) ==
    IF ~got.hasRes
    THEN [entries |-> << >>, err |-> MkErr("failed to fetch eventlog", NoErrAt)]
    ELSE IF got.Res.readErr
    THEN [entries |-> << >>,
          err |-> MkErr("failed to read eventlog response", NoErrAt)]
    ELSE IF ~got.Res.Body.json
    THEN [entries |-> << >>,
          err |-> MkErr("failed to parse eventlog JSON", NoErrAt)]
    ELSE LET log == Field(got.Res.Body.obj, "eventlog")
         IN  [entries |-> [i \in 1 .. Len(log) |->
                             EventLogEntry(log[i].Priority, log[i].Time,
                                           log[i].Message)],
              err |-> MkErr("nil", NoErrAt)]

(***************************************************************************)
(* Timestamps. time.Parse(time.RFC3339, s) of the strings of the samples;  *)
(* an instant is held in seconds since the epoch. fmt.Sprintf("%d",        *)
(* ts.UnixNano()) is the byte string of the decimal digits: the seconds    *)
(* followed by nine zeros, "-" in front of a negative value.               *)
(***************************************************************************)
Instants ==
    [s \in {"1970-01-01T00:00:09Z", "1970-01-01T00:00:10Z"} |->
       IF s = "1970-01-01T00:00:09Z" THEN 9 ELSE 10]

TimeParse(timestamp) ==
    IF Len(timestamp) = 1 /\ timestamp[1] \in DOMAIN Instants
    THEN [ok |-> TRUE, sec |-> Instants[timestamp[1]]]
    ELSE [ok |-> FALSE, sec |-> 0]

\* time.Now() at the point of grouping
Clock == {1700000000}

RECURSIVE DecimalDigits(_)
DecimalDigits(n) ==
    IF n < 10 THEN <<48 + n>> ELSE DecimalDigits(n \div 10) \o <<48 + (n % 10)>>

FormatUnixNano(sec) ==
    IF sec = 0 THEN <<48>>
    ELSE (IF sec < 0 THEN <<45>> ELSE << >>) \o DecimalDigits(Abs(sec))
         \o <<48, 48, 48, 48, 48, 48, 48, 48, 48>>

\* a < b on Go strings: byte by byte, a proper prefix first
StringLess(a, b) ==
    \E k \in 1 .. Len(b) :
        /\ k - 1 <= Len(a)
        /\ \A j \in 1 .. (k - 1) : a[j] = b[j]
        /\ (k > Len(a) \/ a[k] < b[k])

(***************************************************************************)
(* outputs.LokiExporter: the identity key, the request of a push.          *)
(***************************************************************************)
\* fmt.Sprintf("%s|%s|%s", entry.Timestamp, entry.Priority, entry.Message)
logKey(entry) ==
    entry.Timestamp \o <<"|">> \o entry.Priority \o <<"|">> \o entry.Message

Keys(es) == { logKey(es[i]) : i \in 1 .. Len(es) }

\* NewLokiExporter with labels == nil
labels == [k \in {"job"} |-> <<"modem-stats">>]

StreamLabels(priority) ==
    [k \in DOMAIN labels \cup {"level"} |->
       IF k = "level" THEN priority ELSE labels[k]]

\* []string{tsNano, entry.Message}
Value(entry, now) ==
    LET ts == TimeParse(entry.Timestamp)
    IN  << FormatUnixNano(IF ts.ok THEN ts.sec ELSE now), entry.Message >>

StreamValuesOfAll(new, priority, now) ==
    [i \in 1 .. Len(new) |-> Value(new[i], now)]

\* streams[priority] once the grouping loop is through
StreamValues(new, priority, now) ==
    LET mine == SelectSeq(new, LAMBDA e : e.Priority = priority)
    IN  [i \in 1 .. Len(mine) |-> Value(mine[i], now)]

Arrangements(n) ==
    { p \in [1 .. n -> 1 .. n] : \A i, j \in 1 .. n : i # j => p[i] # p[j] }

\* sort.Slice(values, values[i][0] < values[j][0]): any arrangement of the
\* values in which no value is followed by a lesser one
SortSlice(values) ==
    { [i \in 1 .. Len(values) |-> values[p[i]]] :
        p \in { q \in Arrangements(Len(values)) :
                  \A i, j \in 1 .. Len(values) :
                      i < j => ~StringLess(values[q[j]][1], values[q[i]][1]) } }

lokiStream(stream, values) == [Stream |-> stream, Values |-> values]

Priorities(new) == { new[i].Priority : i \in 1 .. Len(new) }

\* the streams a request can hold for newEntries; their order in the request
\* is the iteration order of a map, so the request holds them as a set
LokiStreams(new, now) ==
    LET sorted(priority) ==
            UNION { SortSlice(values) :
                      values \in {StreamValues(new, priority, now)} }
        choices == { c \in [Priorities(new) ->
                              UNION { sorted(priority) :
                                        priority \in Priorities(new) }] :
                       \A priority \in Priorities(new) :
                           c[priority] \in sorted(priority) }
    IN  { { lokiStream(StreamLabels(priority), c[priority]) :
              priority \in Priorities(new) } : c \in choices }

\* what l.client.Post can give: no response, or a response with a status
PostOutcomes ==
    { [transport |-> TRUE, StatusCode |-> 0] } \cup
    { [transport |-> FALSE, StatusCode |-> status] : status \in {204, 300, 500} }

\* Loki has taken the entries of a request it answers with a 2xx status
Accepts(outcome) == ~outcome.transport /\ outcome.StatusCode \in 200 .. 299

PushAlwaysOK(outcome) == TRUE

PushOKBelow400(outcome) == ~outcome.transport /\ outcome.StatusCode < 400

\* err == nil, and not (resp.StatusCode < 200 || resp.StatusCode >= 300)
PushOK(outcome) ==
    ~outcome.transport /\ ~(outcome.StatusCode < 200 \/ outcome.StatusCode >= 300)

NoRequest == [posts |-> 0, Streams |-> {}, transport |-> FALSE, StatusCode |-> 0]

NoLokiRet == [called |-> FALSE, err |-> MkErr("nil", NoErrAt)]

LokiReturns(type) == [called |-> TRUE, err |-> MkErr(type, NoErrAt)]

(***************************************************************************)
(* LokiExporter.PushLogs, one step per action, for the goroutine p.        *)
(***************************************************************************)
Pushers == DOMAIN lpc

RLockAlwaysFree == TRUE

\* seenLogsMu.RLock() goes through while nobody holds the write lock
RLockFree == seenLogsMu.writer = {}

\* seenLogsMu.Lock() goes through while nobody holds the lock at all
LockFree == seenLogsMu.readers = {} /\ seenLogsMu.writer = {}

NoFetch == [entries |-> << >>, err |-> MkErr("nil", NoErrAt)]

FetchFailedNever(got) == FALSE

\* if err != nil, after FetchEventLog
FetchFailed(got) == got.err.type # "nil"

IsNewAlways(entry) == TRUE

\* !l.seenLogs[key]
IsNew(entry) == logKey(entry) \notin seenLogs

MarkedOnly(seen, key) == {key}

\* l.seenLogs[key] = true
Marked(seen, key) == seen \cup {key}

OnCycleErrorStop == "stopped"

\* PushLogs returns its error to the loop of StartPolling, which logs it
\* and goes on to wait for the next tick
OnCycleError == "idle"

\* entries, err := l.logProvider.FetchEventLog(); a failure is returned
PushLogsFetch(p) ==
    /\ lpc[p] = "idle"
    /\ \E res \in ServeEventLog :
          LET got == FetchEventLog(res)
          IN  /\ fetched' = [fetched EXCEPT ![p] = got]
              /\ IF FetchFailed(got)
                 THEN /\ lret' = [lret EXCEPT
                                    ![p] = LokiReturns("failed to fetch event log")]
                      /\ lpc' = [lpc EXCEPT ![p] = OnCycleError]
                 ELSE /\ lret' = [lret EXCEPT ![p] = NoLokiRet]
                      /\ lpc' = [lpc EXCEPT ![p] = "rlock"]
    /\ newEntries' = [newEntries EXCEPT ![p] = << >>]
    /\ cursor' = [cursor EXCEPT ![p] = 0]
    /\ request' = [request EXCEPT ![p] = NoRequest]
    /\ seenBefore' = [seenBefore EXCEPT ![p] = seenLogs]
    /\ UNCHANGED <<eventLog, seenLogs, seenLogsMu, accepted, fetchVars, modemVars,
                   scrapeVars, ticker>>

RLock(p) ==
    /\ lpc[p] = "rlock"
    /\ RLockFree
    /\ seenLogsMu' = [seenLogsMu EXCEPT !.readers = @ \cup {p}]
    /\ cursor' = [cursor EXCEPT ![p] = 1]
    /\ lpc' = [lpc EXCEPT ![p] = "filter"]
    /\ UNCHANGED <<eventLog, seenLogs, fetched, newEntries, request, lret,
                   seenBefore, accepted, fetchVars, modemVars,
                   scrapeVars, ticker>>

\* one turn of the loop over entries: if !l.seenLogs[key] { append }
Filter(p) ==
    /\ lpc[p] = "filter"
    /\ cursor[p] <= Len(fetched[p].entries)
    /\ LET entry == fetched[p].entries[cursor[p]]
       IN  newEntries' = [newEntries EXCEPT
                            ![p] = IF IsNew(entry) THEN Append(@, entry) ELSE @]
    /\ cursor' = [cursor EXCEPT ![p] = @ + 1]
    /\ UNCHANGED <<eventLog, seenLogs, seenLogsMu, lpc, fetched, request, lret,
                   seenBefore, accepted, fetchVars, modemVars,
                   scrapeVars, ticker>>

\* seenLogsMu.RUnlock(); if len(newEntries) == 0 { return nil }
RUnlock(p) ==
    /\ lpc[p] = "filter"
    /\ cursor[p] > Len(fetched[p].entries)
    /\ seenLogsMu' = [seenLogsMu EXCEPT !.readers = @ \ {p}]
    /\ IF newEntries[p] = << >>
       THEN /\ lret' = [lret EXCEPT ![p] = LokiReturns("nil")]
            /\ lpc' = [lpc EXCEPT ![p] = "idle"]
       ELSE /\ lret' = lret
            /\ lpc' = [lpc EXCEPT ![p] = "post"]
    /\ UNCHANGED <<eventLog, seenLogs, fetched, newEntries, cursor, request,
                   seenBefore, accepted, fetchVars, modemVars,
                   scrapeVars, ticker>>

\* the grouping, the sort, l.client.Post and the test of its answer
Post(p) ==
    /\ lpc[p] = "post"
    /\ \E now \in Clock :
       \E streams \in LokiStreams(newEntries[p], now), outcome \in PostOutcomes :
          /\ request' = [request EXCEPT
                           ![p] = [posts |-> @.posts + 1, Streams |-> streams,
                                   transport |-> outcome.transport,
                                   StatusCode |-> outcome.StatusCode]]
          /\ accepted' = IF Accepts(outcome)
                          THEN accepted \cup { newEntries[p][i] :
                                                 i \in 1 .. Len(newEntries[p]) }
                          ELSE accepted
          /\ IF PushOK(outcome)
             THEN /\ lret' = lret
                  /\ lpc' = [lpc EXCEPT ![p] = "lock"]
             ELSE /\ lret' = [lret EXCEPT
                                ![p] = IF outcome.transport
                                       THEN LokiReturns("failed to push to loki")
                                       ELSE LokiReturns("loki returned status")]
                  /\ lpc' = [lpc EXCEPT ![p] = OnCycleError]
    /\ UNCHANGED <<eventLog, seenLogs, seenLogsMu, fetched, newEntries, cursor,
                   seenBefore, fetchVars, modemVars,
                   scrapeVars, ticker>>

Lock(p) ==
    /\ lpc[p] = "lock"
    /\ LockFree
    /\ seenLogsMu' = [seenLogsMu EXCEPT !.writer = {p}]
    /\ cursor' = [cursor EXCEPT ![p] = 1]
    /\ lpc' = [lpc EXCEPT ![p] = "mark"]
    /\ UNCHANGED <<eventLog, seenLogs, fetched, newEntries, request, lret,
                   seenBefore, accepted, fetchVars, modemVars,
                   scrapeVars, ticker>>

\* one turn of the loop over newEntries: l.seenLogs[l.logKey(entry)] = true
MarkSeen(p) ==
    /\ lpc[p] = "mark"
    /\ cursor[p] <= Len(newEntries[p])
    /\ seenLogs' = Marked(seenLogs, logKey(newEntries[p][cursor[p]]))
    /\ cursor' = [cursor EXCEPT ![p] = @ + 1]
    /\ UNCHANGED <<eventLog, seenLogsMu, lpc, fetched, newEntries, request, lret,
                   seenBefore, accepted, fetchVars, modemVars,
                   scrapeVars, ticker>>

\* seenLogsMu.Unlock(); return nil
Unlock(p) ==
    /\ lpc[p] = "mark"
    /\ cursor[p] > Len(newEntries[p])
    /\ seenLogsMu' = [seenLogsMu EXCEPT !.writer = {}]
    /\ lret' = [lret EXCEPT ![p] = LokiReturns("nil")]
    /\ lpc' = [lpc EXCEPT ![p] = "idle"]
    /\ UNCHANGED <<eventLog, seenLogs, fetched, newEntries, cursor, request,
                   seenBefore, accepted, fetchVars, modemVars,
                   scrapeVars, ticker>>

(***************************************************************************)
(* The modem's event log: a new entry is logged, the oldest is dropped.    *)
(***************************************************************************)
ModemLogs ==
    /\ Len(eventLog) < MaxLog
    /\ \E e \in EventSamples : eventLog' = Append(eventLog, e)
    /\ UNCHANGED <<seenLogs, seenLogsMu, lpc, fetched, newEntries, cursor,
                   request, lret, seenBefore, accepted, fetchVars, modemVars,
                   scrapeVars, ticker>>

ModemDrops ==
    /\ eventLog # << >>
    /\ eventLog' = Tail(eventLog)
    /\ UNCHANGED <<seenLogs, seenLogsMu, lpc, fetched, newEntries, cursor,
                   request, lret, seenBefore, accepted, fetchVars, modemVars,
                   scrapeVars, ticker>>

(***************************************************************************)
(* NewLokiExporter, then StartPolling: one goroutine runs PushLogs, cycle  *)
(* after cycle. Several goroutines: StartPolling was called for each.      *)
(***************************************************************************)
MaxPushers == 2

InitFetchIdle ==
    /\ urls = << >>
    /\ concurrencyLimit = ParseStatsLimit
    /\ semaphoreChan = 0
    /\ resultsChan = << >>
    /\ results = << >>
    /\ closed = FALSE
    /\ wpc = << >>
    /\ wres = << >>
    /\ gets = << >>
    /\ bpc = "idle"

StartPolling(n) ==
    /\ seenLogs = {}
    /\ seenLogsMu = [readers |-> {}, writer |-> {}]
    /\ lpc = [p \in 1 .. n |-> "idle"]
    /\ fetched = [p \in 1 .. n |-> NoFetch]
    /\ newEntries = [p \in 1 .. n |-> << >>]
    /\ cursor = [p \in 1 .. n |-> 0]
    /\ request = [p \in 1 .. n |-> NoRequest]
    /\ lret = [p \in 1 .. n |-> NoLokiRet]
    /\ seenBefore = [p \in 1 .. n |-> {}]
    /\ accepted = {}

InitLoki ==
    /\ eventLog = << >>
    /\ StartPolling(1)
    /\ InitFetchIdle
    /\ InitModemIdle
    /\ InitScrapeIdle
    /\ ticker = 0

NextLoki ==
    \/ \E p \in Pushers : PushLogsFetch(p)
    \/ \E p \in Pushers : RLock(p)
    \/ \E p \in Pushers : Filter(p)
    \/ \E p \in Pushers : RUnlock(p)
    \/ \E p \in Pushers : Post(p)
    \/ \E p \in Pushers : Lock(p)
    \/ \E p \in Pushers : MarkSeen(p)
    \/ \E p \in Pushers : Unlock(p)
    \/ ModemLogs
    \/ ModemDrops

SpecLoki == InitLoki /\ [][NextLoki]_vars

(***************************************************************************)
(* Properties of a PushLogs cycle, one goroutine polling.                  *)
(***************************************************************************)
\* the cycle of p has returned, its locals as it left them
CycleOver(p) == lpc[p] = "idle" /\ lret[p].called

\* the cycle of p has posted, or has returned without posting
Settled(p) == lpc[p] \in {"lock", "mark"} \/ CycleOver(p)

Pushed(p) == request[p].posts > 0

\* the request of p holds the entry, in the stream of its severity
Included(entry, p) ==
    \E s \in request[p].Streams :
        /\ s.Stream["level"] = entry.Priority
        /\ \E j \in 1 .. Len(s.Values), now \in Clock :
              s.Values[j] = Value(entry, now)

FetchedEntries(p) ==
    { fetched[p].entries[i] : i \in 1 .. Len(fetched[p].entries) }

NewEntries(p) == { newEntries[p][i] : i \in 1 .. Len(newEntries[p]) }

\* C12: a cycle issues a push if and only if some fetched entry has a key
\* that was not in seenLogs when the cycle began, and no entry whose key was
\* in seenLogs then is in the push; when a cycle that pushed with success is
\* followed by a cycle that fetches the same entries, all their keys are in
\* seenLogs as the second cycle begins, so that it issues no push.
C12_PushIffNew ==
    /\ [](\A p \in Pushers : Settled(p) =>
            /\ Pushed(p) <=>
                 \E entry \in FetchedEntries(p) : logKey(entry) \notin seenBefore[p]
            /\ \A entry \in FetchedEntries(p) :
                   logKey(entry) \in seenBefore[p] => ~Included(entry, p))
    /\ [][\A p \in Pushers :
            ( /\ CycleOver(p) /\ Pushed(p) /\ IsNil(lret[p].err)
              /\ lpc'[p] = "rlock"
              /\ fetched'[p].entries = fetched[p].entries )
            => Keys(fetched'[p].entries) \subseteq seenBefore'[p]]_vars

C12_Witness ==
    \E p \in Pushers :
        /\ CycleOver(p) /\ Pushed(p)
        /\ \E entry \in FetchedEntries(p) : logKey(entry) \in seenBefore[p]
        /\ \E entry \in FetchedEntries(p) : logKey(entry) \notin seenBefore[p]

PushFailed(p) == Pushed(p) /\ ~Accepts(request[p])

\* C13: when the push of a cycle failed (no response, or a status outside
\* 200-299), the cycle returns an error with seenLogs as it was when the
\* cycle began, every entry that was new in the cycle still tests as new,
\* and the next cycle begins with the same seenLogs.
C13_FailedPushKeepsSeenLogs ==
    /\ [](\A p \in Pushers : (CycleOver(p) /\ PushFailed(p)) =>
            /\ ~IsNil(lret[p].err)
            /\ seenLogs = seenBefore[p]
            /\ \A entry \in NewEntries(p) : logKey(entry) \notin seenLogs)
    /\ [][\A p \in Pushers :
            (CycleOver(p) /\ PushFailed(p) /\ lpc'[p] # lpc[p])
            => seenBefore'[p] = seenBefore[p]]_vars

C13_Witness ==
    \E p \in Pushers :
        /\ CycleOver(p) /\ PushFailed(p)
        /\ seenLogs # {}
        /\ request[p].StatusCode = 300

PushSucceeded(p) == Pushed(p) /\ Accepts(request[p])

\* C14: every key in seenLogs is the key of an entry of a push that Loki
\* answered with a success status; and when a cycle returns after such a
\* push, seenLogs is what it was when the cycle began united with the keys
\* of the entries of the push.
C14_SeenLogsWereDelivered ==
    /\ \A key \in seenLogs : \E entry \in accepted : logKey(entry) = key
    /\ \A p \in Pushers : (CycleOver(p) /\ PushSucceeded(p)) =>
          /\ \A entry \in NewEntries(p) : Included(entry, p)
          /\ seenLogs = seenBefore[p] \cup Keys(newEntries[p])

C14_Witness ==
    \E p \in Pushers :
        /\ CycleOver(p) /\ PushSucceeded(p)
        /\ seenBefore[p] # {}
        /\ seenLogs # seenBefore[p]

\* C15: when the fetch of the event log fails, the cycle returns that
\* failure, issues no push and leaves seenLogs as it was.
C15_FetchFailureAborts ==
    \A p \in Pushers : ~IsNil(fetched[p].err) =>
        /\ CycleOver(p)
        /\ lret[p].err.type = "failed to fetch event log"
        /\ ~Pushed(p)
        /\ seenLogs = seenBefore[p]

C15_Witness ==
    \E p \in Pushers :
        /\ fetched[p].err.type = "failed to parse eventlog JSON"
        /\ CycleOver(p)
        /\ seenLogs # {}
        /\ eventLog # << >>
        /\ \E i \in 1 .. Len(eventLog) :
              logKey(EventLogEntry(eventLog[i].Priority, eventLog[i].Time,
                                   eventLog[i].Message)) \notin seenLogs

\* the positions at which the stream s holds the entry
PositionsOf(entry, s) ==
    { j \in 1 .. Len(s.Values) : \E now \in Clock : s.Values[j] = Value(entry, now) }

Parses(entry) == TimeParse(entry.Timestamp).ok

Instant(entry) == TimeParse(entry.Timestamp).sec

\* C16: within every stream of a push, of two entries whose timestamps parse
\* the one with the earlier instant comes first.
C16_StreamsAscendByInstant ==
    \A p \in Pushers : \A s \in request[p].Streams :
        \A e, f \in NewEntries(p) :
            ( /\ e.Priority = s.Stream["level"] /\ f.Priority = s.Stream["level"]
              /\ Parses(e) /\ Parses(f)
              /\ Instant(e) < Instant(f) )
            => \A i \in PositionsOf(e, s), j \in PositionsOf(f, s) : i < j

\* the entries of newEntries with the severity
OfPriority(new, priority) == SelectSeq(new, LAMBDA e : e.Priority = priority)

\* C17: a cycle with new entries submits exactly one push request; the
\* request holds one stream for each severity among the new entries and
\* no other, labelled with the base labels and level = the severity, and
\* holding the new entries of that severity, each once, and nothing else.
C17_OneStreamPerSeverity ==
    \A p \in Pushers :
        /\ (Settled(p) /\ newEntries[p] # << >>) => request[p].posts = 1
        /\ Pushed(p) =>
             /\ request[p].posts = 1
             /\ newEntries[p] # << >>
             /\ { s.Stream["level"] : s \in request[p].Streams } = Priorities(newEntries[p])
             /\ Cardinality(request[p].Streams) = Cardinality(Priorities(newEntries[p]))
             /\ \A s \in request[p].Streams :
                   /\ DOMAIN s.Stream = DOMAIN labels \cup {"level"}
                   /\ \A k \in DOMAIN labels \ {"level"} : s.Stream[k] = labels[k]
                   /\ Len(s.Values) = Len(OfPriority(newEntries[p], s.Stream["level"]))
                   /\ \A entry \in NewEntries(p) :
                         (PositionsOf(entry, s) # {}) <=>
                             (entry.Priority = s.Stream["level"])

C17_Witness ==
    \E p \in Pushers :
        /\ CycleOver(p) /\ Pushed(p)
        /\ Cardinality(request[p].Streams) = 2
        /\ seenBefore[p] # {}

\* C18: no step removes a key from seenLogs.
C18_SeenLogsGrow == [][seenLogs \subseteq seenLogs']_vars

C18_Witness ==
    \E p \in Pushers :
        /\ CycleOver(p) /\ PushFailed(p)
        /\ Cardinality(seenLogs) >= 2

(***************************************************************************)
(* Polling with fairness. The goroutine of StartPolling keeps taking its   *)
(* steps (the ticker fires, the locks are granted); of the fetches that    *)
(* are attempted again and again some give the modem's event log, and of   *)
(* the pushes that are attempted again and again some are accepted.        *)
(***************************************************************************)
\* the goroutine StartPolling starts
Poller == 1

Served(log) ==
    [i \in 1 .. Len(log) |->
       EventLogEntry(log[i].Priority, log[i].Time, log[i].Message)]

FetchSucceeds ==
    /\ PushLogsFetch(Poller)
    /\ IsNil(fetched'[Poller].err)
    /\ fetched'[Poller].entries = Served(eventLog)

PushSucceeds == Post(Poller) /\ Accepts(request'[Poller])

\* the modem holds a log that stays as it is while the goroutine polls
InitLokiFair ==
    /\ eventLog \in EventLogs
    /\ StartPolling(1)
    /\ InitFetchIdle
    /\ InitModemIdle
    /\ InitScrapeIdle
    /\ ticker = 0

NextPolling ==
    \/ PushLogsFetch(Poller)
    \/ RLock(Poller)
    \/ Filter(Poller)
    \/ RUnlock(Poller)
    \/ Post(Poller)
    \/ Lock(Poller)
    \/ MarkSeen(Poller)
    \/ Unlock(Poller)

SpecLokiFair ==
    /\ InitLokiFair
    /\ [][NextPolling]_vars
    /\ WF_vars(PushLogsFetch(Poller))
    /\ WF_vars(RLock(Poller))
    /\ WF_vars(Filter(Poller))
    /\ WF_vars(RUnlock(Poller))
    /\ WF_vars(Post(Poller))
    /\ WF_vars(Lock(Poller))
    /\ WF_vars(MarkSeen(Poller))
    /\ WF_vars(Unlock(Poller))
    /\ SF_vars(FetchSucceeds)
    /\ SF_vars(PushSucceeds)

InLog(e) == \E i \in 1 .. Len(eventLog) : eventLog[i] = e

Shipped(e) ==
    LET entry == EventLogEntry(e.Priority, e.Time, e.Message)
    IN  logKey(entry) \in seenLogs /\ entry \in accepted

CycleFailed(p) == lret[p].called /\ ~IsNil(lret[p].err)

\* C19: a cycle that returned an error is followed by a cycle that gets past
\* its fetch, and an entry of the modem's event log is eventually in a push
\* that Loki accepted, its key in seenLogs.
C19_EventuallyShipped ==
    /\ CycleFailed(Poller) ~> (lpc[Poller] = "rlock")
    /\ \A e \in EventSamples : InLog(e) ~> Shipped(e)

C19_Witness ==
    /\ CycleOver(Poller) /\ PushSucceeded(Poller)
    /\ \E e \in EventSamples :
          /\ InLog(e) /\ Shipped(e)
          /\ EventLogEntry(e.Priority, e.Time, e.Message) \in NewEntries(Poller)
    /\ Len(eventLog) = MaxLog

(***************************************************************************)
(* Several goroutines call PushLogs at once, each once, on one exporter;   *)
(* the modem holds a log that stays as it is.                              *)
(***************************************************************************)
InitLokiConcurrent ==
    /\ eventLog \in EventLogs
    /\ StartPolling(MaxPushers)
    /\ InitFetchIdle
    /\ InitModemIdle
    /\ InitScrapeIdle
    /\ ticker = 0

NextConcurrent ==
    \/ \E p \in Pushers : ~lret[p].called /\ PushLogsFetch(p)
    \/ \E p \in Pushers : RLock(p)
    \/ \E p \in Pushers : Filter(p)
    \/ \E p \in Pushers : RUnlock(p)
    \/ \E p \in Pushers : Post(p)
    \/ \E p \in Pushers : Lock(p)
    \/ \E p \in Pushers : MarkSeen(p)
    \/ \E p \in Pushers : Unlock(p)

SpecLokiConcurrent == InitLokiConcurrent /\ [][NextConcurrent]_vars

Filtering == { p \in Pushers : lpc[p] = "filter" }

Marking == { p \in Pushers : lpc[p] = "mark" }

\* C20: with several cycles running at once, while a cycle inserts its keys
\* no other cycle is in its filter or inserts, and no step changes seenLogs
\* while a cycle is in its filter; once all cycles have returned, seenLogs
\* holds the key of every entry of every push that Loki accepted.
C20_NoLostUpdate ==
    /\ [](Marking # {} => (Cardinality(Marking) = 1 /\ Filtering = {}))
    /\ [][Filtering # {} => seenLogs' = seenLogs]_vars
    /\ []((\A p \in Pushers : CycleOver(p)) =>
            /\ \A p \in Pushers :
                  PushSucceeded(p) => Keys(newEntries[p]) \subseteq seenLogs
            /\ \A entry \in accepted : logKey(entry) \in seenLogs)

C20_Witness ==
    \E p, q \in Pushers :
        /\ lpc[p] = "mark" /\ cursor[p] = 2 /\ Len(newEntries[p]) = 2
        /\ lpc[q] = "rlock"
        /\ \E entry \in FetchedEntries(q) : logKey(entry) \notin seenLogs

(***************************************************************************)
(* Properties of the cached document.                                      *)
(***************************************************************************)
\* the previous call ended in the normalization of the document still cached
NormalizedCached ==
    /\ Answered
    /\ ~NeedsFetch
    /\ ret.err.type \notin {"Get", "ReadAll", "MergePatch"}

\* C22: the duration of a snapshot is the stored elapsed time of the modem,
\* and a ParseStats call served from the cached document leaves the stored
\* FetchTime as it was and returns it as the FetchTime of the snapshot.
C22_DurationIsStoredFetchTime ==
    /\ [](Answered /\ IsNil(ret.err) => ret.stats.FetchTime = FetchTime)
    /\ [][ret'.called /\ ret'.cached =>
            /\ FetchTime' = FetchTime
            /\ IsNil(ret'.err) => ret'.stats.FetchTime = FetchTime]_vars

C22_Witness ==
    /\ Answered
    /\ ret.cached
    /\ IsNil(ret.err)
    /\ FetchTime > 0
    /\ ret.stats.FetchTime = FetchTime

\* C23: a ParseStats call that follows a normalization of the same cached
\* document, with no ClearStats in between, returns the same snapshot and
\* the same error as the call before it and leaves the document unchanged.
C23_NormalizationIdempotent ==
    [][NormalizedCached /\ ret'.called =>
         /\ ret'.stats = ret.stats
         /\ ret'.err = ret.err
         /\ Stats' = Stats]_vars

C23_Witness ==
    /\ NormalizedCached
    /\ ret.cached
    /\ Len(ret.stats.DownChannels) > 0
    /\ Len(ret.stats.UpChannels) > 0
    /\ Len(ret.stats.Configs) > 0

\* C27: within one cycle every identity key is shipped at most once: the
\* request of a cycle holds no entry at more than one position of a stream,
\* also when the fetched event log holds that entry more than once.
C27_KeyShippedOncePerCycle ==
    \A p \in Pushers : \A s \in request[p].Streams :
        \A e \in NewEntries(p) : Cardinality(PositionsOf(e, s)) <= 1

(***************************************************************************)
(* The exporter in front of a modem whose entries hold the separator of    *)
(* logKey in their fields: the fields are strings the modem chooses.       *)
(***************************************************************************)
SeparatorSamples ==
    { eventLogEntry(<<"error">>, <<"2024">>, <<"a", "|", "b">>),
      eventLogEntry(<<"error", "|", "a">>, <<"2024">>, <<"b">>),
      eventLogEntry(<<"notice">>, <<"2024">>, <<"b">>) }

ModemLogsSeparators ==
    /\ Len(eventLog) < MaxLog
    /\ \E e \in SeparatorSamples : eventLog' = Append(eventLog, e)
    /\ UNCHANGED <<seenLogs, seenLogsMu, lpc, fetched, newEntries, cursor,
                   request, lret, seenBefore, accepted, fetchVars, modemVars,
                   scrapeVars, ticker>>

NextLogKey ==
    \/ PushLogsFetch(Poller)
    \/ RLock(Poller)
    \/ Filter(Poller)
    \/ RUnlock(Poller)
    \/ Post(Poller)
    \/ Lock(Poller)
    \/ MarkSeen(Poller)
    \/ Unlock(Poller)
    \/ ModemLogsSeparators
    \/ ModemDrops

SpecLogKey == InitLoki /\ [][NextLogKey]_vars

\* the filter loop of the cycle of p is through
Filtered(p) ==
    \/ lpc[p] \in {"post", "lock", "mark"}
    \/ CycleOver(p) /\ ~FetchFailed(fetched[p])

\* entries of one fetch with the same key are the same entry
KeysTellEntriesApart ==
    \A p \in Pushers : \A e, f \in FetchedEntries(p) :
        logKey(e) = logKey(f) =>
            /\ e.Timestamp = f.Timestamp
            /\ e.Priority = f.Priority
            /\ e.Message = f.Message

\* an entry the filter has left out was accepted by Loki before
SuppressedWereShipped ==
    \A p \in Pushers : Filtered(p) =>
        \A e \in FetchedEntries(p) \ NewEntries(p) : e \in accepted

\* C28: logKey is injective: entries with the same key have the same
\* timestamp, the same severity and the same message, whatever the fields
\* hold, so that the filter never leaves out an entry that was never shipped.
C28_LogKeyInjective == KeysTellEntriesApart /\ SuppressedWereShipped

(***************************************************************************)
(* BoundedParallelGet under a scheduler that lets every goroutine that can *)
(* take a step take it in the end, and with GETs that all return.          *)
(***************************************************************************)
WorkerIds == 0 .. MaxN - 1

SpecFetchFair ==
    /\ InitFetch
    /\ [][NextFetch]_vars
    /\ \A i \in WorkerIds : WF_vars(i \in Workers /\ Acquire(i))
    /\ \A i \in WorkerIds : WF_vars(i \in Workers /\ GetReturn(i))
    /\ \A i \in WorkerIds : WF_vars(i \in Workers /\ Send(i))
    /\ \A i \in WorkerIds : WF_vars(i \in Workers /\ Release(i))
    /\ WF_vars(Collect)
    /\ WF_vars(Return)

AllWorkersDone == \A i \in Workers : wpc[i] = "done"

\* no goroutine has a send ahead of it on a channel that is closed
NoSendAfterClose ==
    closed => \A i \in Workers : wpc[i] \in {"release", "done"}

\* C24: BoundedParallelGet returns in the end, every worker runs to its
\* end, and no worker has a send ahead of it once the channels are closed.
C24_Terminates ==
    /\ <>Returned
    /\ <>AllWorkersDone
    /\ []NoSendAfterClose

C24_Witness ==
    /\ Returned
    /\ AllWorkersDone
    /\ closed
    /\ Len(urls) > concurrencyLimit
    /\ semaphoreChan = 0

(***************************************************************************)
(* StartPolling: the goroutine calls PushLogs once, then once for every    *)
(* tick it receives from ticker.C. The Ticker sends on a channel of        *)
(* capacity 1 whenever the interval has passed, whatever the goroutine is  *)
(* doing, and drops the tick when the channel is full.                     *)
(***************************************************************************)
LoopAlwaysReady == TRUE

\* the goroutine is at "for range ticker.C": the PushLogs it called returned
LoopReady == lpc[Poller] = "idle" /\ lret[Poller].called

Tick ==
    /\ ticker = 0
    /\ ticker' = 1
    /\ UNCHANGED <<fetchVars, modemVars, lokiVars, scrapeVars>>

\* a tick is received; what the last PushLogs returned was logged and is
\* dropped, PushLogs is called next
TickReceive ==
    /\ LoopReady
    /\ ticker = 1
    /\ ticker' = 0
    /\ lret' = [lret EXCEPT ![Poller] = NoLokiRet]
    /\ UNCHANGED <<eventLog, seenLogs, seenLogsMu, lpc, fetched, newEntries,
                   cursor, request, seenBefore, accepted, fetchVars, modemVars,
                   scrapeVars>>

NextTicker ==
    \/ ~lret[Poller].called /\ PushLogsFetch(Poller)
    \/ RLock(Poller)
    \/ Filter(Poller)
    \/ RUnlock(Poller)
    \/ Post(Poller)
    \/ Lock(Poller)
    \/ MarkSeen(Poller)
    \/ Unlock(Poller)
    \/ Tick
    \/ TickReceive

SpecTicker == InitLokiFair /\ [][NextTicker]_vars

\* a PushLogs call of the poller has not returned yet
CycleInFlight == lpc[Poller] # "idle"

\* C25: the cycles of one poller are single-flight: the loop takes a tick,
\* and with it starts the next cycle, only when the cycle before it has
\* returned, and while a cycle is in flight no other cycle begins, whatever
\* the number of ticks that fall into the cycle.
C25_SingleFlight ==
    [][/\ ticker' < ticker => ~CycleInFlight /\ lret[Poller].called
       /\ CycleInFlight => fetched' = fetched /\ seenBefore' = seenBefore]_vars

C25_Witness ==
    /\ CycleInFlight
    /\ lpc[Poller] = "filter"
    /\ seenLogs # {}
    /\ ticker = 1

(***************************************************************************)
(* PrometheusExporter.Collect: the metrics sent on ch for a snapshot.      *)
(***************************************************************************)
TypeVDSL == "VDSL"

\* strconv.Itoa
Itoa(n) == IF n < 0 THEN <<45>> \o DecimalDigits(0 - n) ELSE DecimalDigits(n)

\* prometheus.MustNewConstMetric(desc, valueType, value, labelValues...)
Metric(desc, value, labelValues) ==
    [desc |-> desc, value |-> value, labelValues |-> labelValues]

lockedVal(c) == IF c.Locked THEN 1 ELSE 0

DownChannelMetrics(c, modemType) ==
    IF modemType = TypeVDSL
    THEN LET ids == <<Itoa(c.ChannelID)>>
         IN  << Metric("downNoise", c.Noise, ids),
                Metric("downAttenuation", c.Attenuation, ids) >>
    ELSE LET ids == <<Itoa(c.Channel), Itoa(c.ChannelID), c.Modulation, c.Scheme>>
         IN  << Metric("downFrequency", c.Frequency, ids),
                Metric("downPower", c.Power, ids),
                Metric("downSNR", c.Snr, ids),
                Metric("downPreRS", c.Prerserr, ids),
                Metric("downPostRS", c.Postrserr, ids),
                Metric("downLocked", lockedVal(c), ids) >>

UpChannelMetrics(c, modemType) ==
    IF modemType = TypeVDSL
    THEN LET ids == <<Itoa(c.ChannelID)>>
         IN  << Metric("upNoise", c.Noise, ids),
                Metric("upAttenuation", c.Attenuation, ids) >>
    ELSE LET ids == <<Itoa(c.Channel), Itoa(c.ChannelID)>>
         IN  << Metric("upPower", c.Power, ids),
                Metric("upFrequency", c.Frequency, ids),
                Metric("upLocked", lockedVal(c), ids) >>
             \o (IF c.SymbolRate > 0
                 THEN <<Metric("upSymbolRate", c.SymbolRate, ids)>> ELSE << >>)
             \o << Metric("upT1Timeout", c.T1Timeout, ids),
                   Metric("upT2Timeout", c.T2Timeout, ids),
                   Metric("upT3Timeout", c.T3Timeout, ids),
                   Metric("upT4Timeout", c.T4Timeout, ids) >>

ConfigMetrics(config) ==
    LET ids == <<config.Config, Itoa(config.ServiceFlowId)>>
    IN  <<Metric("maxrate", config.Maxrate, ids)>>
        \o (IF config.Maxburst # 0
            THEN <<Metric("maxburst", config.Maxburst, ids)>> ELSE << >>)

RECURSIVE Concat(_)
Concat(seqs) == IF seqs = << >> THEN << >> ELSE Head(seqs) \o Concat(Tail(seqs))

\* the three range loops of Collect, then the fetchtime metric
Metrics(stats) ==
    Concat([k \in 1 .. Len(stats.DownChannels) |->
              DownChannelMetrics(stats.DownChannels[k], stats.ModemType)])
    \o Concat([k \in 1 .. Len(stats.UpChannels) |->
                 UpChannelMetrics(stats.UpChannels[k], stats.ModemType)])
    \o Concat([k \in 1 .. Len(stats.Configs) |-> ConfigMetrics(stats.Configs[k])])
    \o <<Metric("fetchtime", stats.FetchTime, << >>)>>

(***************************************************************************)
(* Collect, one step per access to the modem, for the goroutine s of a     *)
(* scrape. Each scrape runs Collect in a goroutine of its own; the modem   *)
(* is the one the exporter was built with, and nothing guards its Stats    *)
(* and FetchTime. Every access is taken as one step: of the outcomes of    *)
(* the unsynchronised accesses these are the ones of sequential            *)
(* consistency.                                                            *)
(***************************************************************************)
MaxScrapers == 2

Scrapers == DOMAIN cpc

\* what a GET of the fetch set gets here: the fragment, or no response
Answers(url) ==
    { got \in Serve(url) :
        \/ got.Err.type # "nil"
        \/ got.Res.StatusCode = 200 /\ got.Res.Body.json /\ ~got.Res.readErr }

\* what BoundedParallelGet(queries, 3) can return: one result for each
\* query, in the order the requests completed
FetchSets ==
    { [j \in 1 .. Len(Queries) |-> HttpResult(order[j] - 1, got[order[j]])] :
        order \in Arrangements(Len(Queries)),
        got \in { g \in [1 .. Len(Queries) ->
                           UNION { Answers(Queries[i]) : i \in 1 .. Len(Queries) }] :
                    \A i \in 1 .. Len(Queries) : g[i] \in Answers(Queries[i]) } }

\* utils.ResetStats(p.docsisModem): sh5.Stats = nil
ResetStats(s) ==
    /\ cpc[s] = "collect"
    /\ Stats' = Nil
    /\ cpc' = [cpc EXCEPT ![s] = "parse"]
    /\ UNCHANGED <<FetchTime, mpc, ret, fetchSet, queryIndex, decoded,
                   modemStats, ch, fetchVars, lokiVars, ticker>>

\* ParseStats: if sh5.Stats == nil { sh5.Stats = []byte("{}") ...
ParseStatsEnter(s) ==
    /\ cpc[s] = "parse"
    /\ IF NeedsFetch
       THEN /\ Stats' = Json(EmptyObj)
            /\ cpc' = [cpc EXCEPT ![s] = "get"]
       ELSE /\ Stats' = Stats
            /\ cpc' = [cpc EXCEPT ![s] = "unmarshal"]
    /\ UNCHANGED <<FetchTime, mpc, ret, fetchSet, queryIndex, decoded,
                   modemStats, ch, fetchVars, lokiVars, ticker>>

\* statsData := utils.BoundedParallelGet(queries, 3); sh5.FetchTime = ...
ParseStatsGet(s) ==
    /\ cpc[s] = "get"
    /\ \E statsData \in FetchSets : fetchSet' = [fetchSet EXCEPT ![s] = statsData]
    /\ \E elapsed \in 0 .. MaxElapsed : FetchTime' = elapsed
    /\ queryIndex' = [queryIndex EXCEPT ![s] = 1]
    /\ cpc' = [cpc EXCEPT ![s] = "merge"]
    /\ UNCHANGED <<Stats, mpc, ret, decoded, modemStats, ch, fetchVars,
                   lokiVars, ticker>>

\* one turn of for _, query := range statsData
ParseStatsMerge(s) ==
    /\ cpc[s] = "merge"
    /\ LET query == fetchSet[s][queryIndex[s]]
           merged == MergeMergePatches(Stats, query.Res.Body)
           fails(err) ==
               /\ modemStats' = [modemStats EXCEPT
                                   ![s] = Returns(ZeroStats, err, FALSE)]
               /\ cpc' = [cpc EXCEPT ![s] = "emit"]
               /\ queryIndex' = queryIndex
       IN  IF query.Err.type # "nil"
           THEN fails(query.Err) /\ Stats' = Stats
           ELSE IF query.Res.readErr
           THEN fails(MkErr("ReadAll", NoErrAt)) /\ Stats' = Stats
           ELSE /\ Stats' = merged.out
                /\ IF merged.err.type # "nil"
                   THEN fails(merged.err)
                   ELSE /\ modemStats' = modemStats
                        /\ queryIndex' = [queryIndex EXCEPT ![s] = @ + 1]
                        /\ cpc' = [cpc EXCEPT
                                     ![s] = IF queryIndex[s] = Len(fetchSet[s])
                                            THEN "unmarshal" ELSE "merge"]
    /\ UNCHANGED <<FetchTime, mpc, ret, fetchSet, decoded, ch, fetchVars,
                   lokiVars, ticker>>

\* json.Unmarshal(sh5.Stats, &results), the three loops, the return
ParseStatsUnmarshal(s) ==
    /\ cpc[s] = "unmarshal"
    /\ decoded' = [decoded EXCEPT ![s] = Stats]
    /\ modemStats' = [modemStats EXCEPT
                        ![s] = Normalize(Stats, FetchTime, fetchSet[s] = << >>)]
    /\ cpc' = [cpc EXCEPT ![s] = "emit"]
    /\ UNCHANGED <<Stats, FetchTime, mpc, ret, fetchSet, queryIndex, ch,
                   fetchVars, lokiVars, ticker>>

\* modemStats, _ := utils.FetchStats(...): the loops over modemStats and
\* the fetchtime metric
CollectEmit(s) ==
    /\ cpc[s] = "emit"
    /\ ch' = [ch EXCEPT ![s] = Metrics(modemStats[s].stats)]
    /\ cpc' = [cpc EXCEPT ![s] = "done"]
    /\ UNCHANGED <<modemVars, fetchSet, queryIndex, decoded, modemStats,
                   fetchVars, lokiVars, ticker>>

\* the registry gathers for MaxScrapers scrapes at once
InitScrape ==
    /\ cpc = [s \in 1 .. MaxScrapers |-> "collect"]
    /\ fetchSet = [s \in 1 .. MaxScrapers |-> << >>]
    /\ queryIndex = [s \in 1 .. MaxScrapers |-> 0]
    /\ decoded = [s \in 1 .. MaxScrapers |-> Nil]
    /\ modemStats = [s \in 1 .. MaxScrapers |-> NoRet]
    /\ ch = [s \in 1 .. MaxScrapers |-> << >>]
    /\ InitModemIdle
    /\ InitFetchIdle
    /\ InitLokiIdle
    /\ ticker = 0

NextScrape ==
    \/ \E s \in Scrapers : ResetStats(s)
    \/ \E s \in Scrapers : ParseStatsEnter(s)
    \/ \E s \in Scrapers : ParseStatsGet(s)
    \/ \E s \in Scrapers : ParseStatsMerge(s)
    \/ \E s \in Scrapers : ParseStatsUnmarshal(s)
    \/ \E s \in Scrapers : CollectEmit(s)

SpecScrape == InitScrape /\ [][NextScrape]_vars

\* the Collect of s has returned
Collected(s) == cpc[s] = "done"

\* C21: a Collect whose ParseStats returned an error has sent no metric
\* on ch.
C21_FailedScrapeEmitsNothing ==
    \A s \in Scrapers :
        Collected(s) /\ ~IsNil(modemStats[s].err) => ch[s] = << >>

\* every fragment of the fetch set is merged in the document
Complete(doc) ==
    /\ doc.json
    /\ {"downstream.channels", "upstream.channels", "serviceFlows"}
          \subseteq DOMAIN doc.obj

\* C26: with Collect calls running at once on one modem, every ParseStats
\* that returns without error has normalized a document that holds all the
\* fragments of a fetch set, never the placeholder or a part of the merge.
C26_NormalizesCompleteDocument ==
    \A s \in Scrapers :
        cpc[s] \in {"emit", "done"} /\ IsNil(modemStats[s].err)
            => Complete(decoded[s])

====
